---- MODULE Spec2Model ----
(***************************************************************************)
(* Model of tauri-app/gen_icon.py: a script that draws a crab icon on a    *)
(* 256x256 RGBA canvas and saves it as icons/icon.png.                     *)
(*                                                                         *)
(* One action per statement of the module body.  A run is one execution    *)
(* of the script; StartRun models the script being started again on the    *)
(* filesystem the previous run left behind.  The calls into Pillow and os  *)
(* are modelled by what those calls do to the canvas, the filesystem and   *)
(* the control flow (an exception no statement catches ends the run).      *)
(***************************************************************************)
EXTENDS Integers, Sequences, FiniteSets, TLC

VARIABLES
    pc,          \* the statement the run is at, or "done" / "failed"
    img,         \* the canvas (Image.new), NoImage before it is allocated
    draw,        \* TRUE once ImageDraw.Draw(img) is bound to the canvas
    fs,          \* the filesystem: path -> entry
    diskFree,    \* PNG chunks the disk still has room for
    defaultFont, \* the font ImageFont.load_default() gives in this build
    stdout,      \* lines printed by the current run
    stderr,      \* the interpreter's diagnostic of the current run
    exit,        \* <<>> while running, <<status>> once the process ended
    err,         \* the exception that ended the run, NoErr if none
    calls,       \* filesystem calls made by the current run, in order
    run,         \* number of the current run
    fs0,         \* history: the filesystem as the current run found it
    prevOK,      \* history: the run before this one ended successfully
    lastOK       \* history: file contents written by the last successful
                 \*          run, <<>> if no run succeeded yet

vars == <<pc, img, draw, fs, diskFree, defaultFont, stdout, stderr, exit,
          err, calls, run, fs0, prevOK, lastOK>>

(***************************************************************************)
(* Bounds                                                                  *)
(***************************************************************************)
MaxRuns == 3

(***************************************************************************)
(* Constants of the script                                                 *)
(***************************************************************************)
size == 256

Transparent == <<0, 0, 0, 0>>

BodyBox == <<50, 80, 206, 176>>

LeftClawBox == <<30, 60, 80, 110>>

RightClawBox == <<176, 60, 226, 110>>

\* faulty variant: the fill colour with its alpha left at 0
CrabRedTransparent == <<233, 69, 96, 0>>

CrabRed == <<233, 69, 96, 255>>

TextXY == <<100, 105>>

\* the string literal of line 13 as code points: U+1F980 (crab)
CrabText == <<129408>>

White == <<255, 255, 255, 255>>

IconsDir == "icons"

\* faulty variant: the icon written over a file of the working directory
IconPathInCwd == "tauri.conf.json"

IconPath == "icons/icon.png"

Confirmation == "Created icons/icon.png"

\* paths of the working directory the script never names
Cwd == "."

Other == "tauri.conf.json"

Paths == {Cwd, IconsDir, IconPath, Other}

(***************************************************************************)
(* Canvas                                                                  *)
(***************************************************************************)
\* The pixel storage is kept as the drawing calls applied to it, oldest first;
\* GetPixel computes a pixel from them.
NoImage == [mode |-> "none", size |-> <<0, 0>>, layers |-> <<>>]

Layer(op, xy, fill, txt) == [op |-> op, xy |-> xy, fill |-> fill, text |-> txt]

\* faulty variant: the canvas allocated without an alpha channel
ImageNewRGB(mode, w, h, color) ==
    [mode |-> "RGB", size |-> <<w, h>>,
     layers |-> <<Layer("fill", <<0, 0, w - 1, h - 1>>, color, <<>>)>>]

\* Image.new(mode, (w, h), color): storage of w x h pixels, filled with color
ImageNewValue(mode, w, h, color) ==
    [mode |-> mode, size |-> <<w, h>>,
     layers |-> <<Layer("fill", <<0, 0, w - 1, h - 1>>, color, <<>>)>>]

\* draw.ellipse(box, fill): the pixels of the bounding box whose centre lies
\* in the ellipse inscribed in it (coordinates doubled to stay in integers)
EllipseCovers(box, x, y) ==
    LET w == box[3] - box[1]
        h == box[4] - box[2]
        X == 2 * x - (box[1] + box[3])
        Y == 2 * y - (box[2] + box[4])
    IN  /\ box[1] <= x /\ x <= box[3]
        /\ box[2] <= y /\ y <= box[4]
        /\ X * X * h * h + Y * Y * w * w <= w * w * h * h

\* Pillow's MULDIV255 and BLEND on 8-bit channels
MulDiv255(a, b) ==
    LET tmp == a * b + 128
    IN  (((tmp \div 256) + tmp) \div 256) % 256

Blend(mask, in1, in2) ==
    (MulDiv255(in1, 255 - mask) + MulDiv255(in2, mask)) % 256

\* The coverage mask the FreeType default font renders for a code point it
\* has no glyph for: a hollow box with anti-aliased corners, one row per line.
NotdefGlyph ==
    << <<128, 255, 255, 255, 255, 128>>,
       <<255,   0,   0,   0,   0, 255>>,
       <<255,   0,   0,   0,   0, 255>>,
       <<255,   0,   0,   0,   0, 255>>,
       <<255,   0,   0,   0,   0, 255>>,
       <<255,   0,   0,   0,   0, 255>>,
       <<255,   0,   0,   0,   0, 255>>,
       <<128, 255, 255, 255, 255, 128>> >>

GlyphRows == Len(NotdefGlyph)

GlyphCols == Len(NotdefGlyph[1])

\* the mask of a text: its glyphs side by side, 0 outside
TextMask(text, dx, dy) ==
    IF /\ 0 <= dy /\ dy < GlyphRows
       /\ 0 <= dx /\ dx < GlyphCols * Len(text)
    THEN NotdefGlyph[dy + 1][(dx % GlyphCols) + 1]
    ELSE 0

\* the bitmap default font encodes the text as Latin-1 before it looks up
\* glyphs; the FreeType default font takes any code point
Latin1Encodable(text) == \A i \in 1..Len(text) : text[i] <= 255

ApplyLayer(l, prev, x, y) ==
    IF l.op = "fill"
    THEN l.fill
    ELSE IF l.op = "ellipse"
    THEN IF EllipseCovers(l.xy, x, y) THEN l.fill ELSE prev
    ELSE LET m == TextMask(l.text, x - l.xy[1], y - l.xy[2])
         IN  [c \in 1..4 |-> Blend(m, prev[c], l.fill[c])]

\* the pixel at (x, y) after the first n drawing calls
RECURSIVE PixelAfter(_, _, _, _)
PixelAfter(im, n, x, y) ==
    IF n = 0 THEN <<0, 0, 0, 0>>
    ELSE ApplyLayer(im.layers[n], PixelAfter(im, n - 1, x, y), x, y)

\* img.getpixel((x, y))
GetPixel(im, x, y) == PixelAfter(im, Len(im.layers), x, y)

Alpha(px) == px[4]

(***************************************************************************)
(* PNG                                                                     *)
(***************************************************************************)
PNGChunkTypes == <<"IHDR", "IDAT", "IEND">>

\* PngImagePlugin's table of output modes: mode -> (bit depth, colour type)
PNGColorType(mode) ==
    IF mode = "RGBA" THEN 6
    ELSE IF mode = "RGB" THEN 2
    ELSE IF mode = "LA" THEN 4
    ELSE 0

PNGMode(colortype) ==
    IF colortype = 6 THEN "RGBA"
    ELSE IF colortype = 2 THEN "RGB"
    ELSE IF colortype = 4 THEN "LA"
    ELSE "L"

Chunk(type, w, h, ct, data) ==
    [type |-> type, width |-> w, height |-> h, colortype |-> ct, data |-> data]

\* the chunks img.save writes for a PNG, in order
EncodePNG(im) ==
    << Chunk("IHDR", im.size[1], im.size[2], PNGColorType(im.mode), <<>>),
       Chunk("IDAT", 0, 0, 0, im.layers),
       Chunk("IEND", 0, 0, 0, <<>>) >>

\* a file is a complete PNG when it holds every chunk up to IEND
IsCompletePNG(data) ==
    /\ Len(data) = Len(PNGChunkTypes)
    /\ \A i \in 1..Len(data) : data[i].type = PNGChunkTypes[i]

\* Image.open(...): the canvas a complete PNG decodes to
DecodePNG(data) ==
    [mode |-> PNGMode(data[1].colortype),
     size |-> <<data[1].width, data[1].height>>,
     layers |-> data[2].data]

(***************************************************************************)
(* Filesystem                                                              *)
(***************************************************************************)
Entry(kind, w, data) == [kind |-> kind, w |-> w, data |-> data]

Absent == Entry("absent", FALSE, <<>>)

Dir(w) == Entry("dir", w, <<>>)

File(w, data) == Entry("file", w, data)

\* an unrelated file some other tool left at a path
Foreign == <<Chunk("JFIF", 0, 0, 0, <<>>)>>

\* what a path holds, its permissions aside
Content(f, p) == <<f[p].kind, f[p].data>>

Call(op, path, mode) == [op |-> op, path |-> path, mode |-> mode]

Min(a, b) == IF a <= b THEN a ELSE b

(***************************************************************************)
(* Initial states: the working directory a first run can find              *)
(***************************************************************************)
NoErr == [type |-> "none", at |-> "none"]

InitialFS ==
    { [p \in Paths |->
          IF p = Cwd THEN Dir(cw)
          ELSE IF p = IconsDir THEN d
          ELSE IF p = IconPath THEN f
          ELSE File(TRUE, Foreign)] :
      cw \in BOOLEAN,
      d \in {Absent, File(TRUE, Foreign), Dir(TRUE), Dir(FALSE)},
      f \in {Absent, File(TRUE, Foreign), File(FALSE, Foreign)} }

\* a file lives in a directory
WellFormed(f) == f[IconPath].kind # "absent" => f[IconsDir].kind = "dir"

Init ==
    /\ pc = "new"
    /\ img = NoImage
    /\ draw = FALSE
    /\ fs \in {f \in InitialFS : WellFormed(f)}
    /\ diskFree \in 0..Len(PNGChunkTypes)
    /\ defaultFont \in {"bitmap", "freetype"}
    /\ stdout = <<>>
    /\ stderr = <<>>
    /\ exit = <<>>
    /\ err = NoErr
    /\ calls = <<>>
    /\ run = 1
    /\ fs0 = fs
    /\ prevOK = FALSE
    /\ lastOK = <<>>

(***************************************************************************)
(* Control flow                                                            *)
(***************************************************************************)
\* faulty variant: the exception swallowed by a bare try/except, the script goes on
\* to its last statement
RaiseCaught(type) ==
    /\ err' = [type |-> type, at |-> pc]
    /\ pc' = "print"
    /\ UNCHANGED <<stderr, exit>>

\* an exception no statement catches: traceback on stderr, exit status 1
Raise(type) ==
    /\ err' = [type |-> type, at |-> pc]
    /\ stderr' = <<"Traceback (most recent call last):", type>>
    /\ exit' = <<1>>
    /\ pc' = "failed"

\* the statement completed: go on to the next one
Goto(next) ==
    /\ pc' = next
    /\ UNCHANGED <<err, stderr, exit>>

(***************************************************************************)
(* Drawing: lines 6-13                                                     *)
(***************************************************************************)
\* line 6: img = Image.new('RGBA', (size, size), (0, 0, 0, 0))
ImageNew ==
    /\ pc = "new"
    /\ img' = ImageNewValue("RGBA", size, size, Transparent)
    /\ Goto("Draw")
    /\ UNCHANGED <<draw, fs, diskFree, defaultFont, stdout, calls, run, fs0,
                   prevOK, lastOK>>

\* line 7: draw = ImageDraw.Draw(img)
ImageDrawDraw ==
    /\ pc = "Draw"
    /\ draw' = TRUE
    /\ Goto("body")
    /\ UNCHANGED <<img, fs, diskFree, defaultFont, stdout, calls, run, fs0,
                   prevOK, lastOK>>

\* draw.ellipse(box, fill=fill) at statement `at`
ellipse(at, box, fill, next) ==
    /\ pc = at
    /\ draw
    /\ img' = [img EXCEPT !.layers = Append(@, Layer("ellipse", box, fill, <<>>))]
    /\ Goto(next)
    /\ UNCHANGED <<draw, fs, diskFree, defaultFont, stdout, calls, run, fs0,
                   prevOK, lastOK>>

\* line 10
EllipseBody == ellipse("body", BodyBox, CrabRed, "leftClaw")

\* line 11
EllipseLeftClaw == ellipse("leftClaw", LeftClawBox, CrabRed, "rightClaw")

\* faulty variant: the text overlay skipped
EllipseRightClawThenMakedirs ==
    ellipse("rightClaw", RightClawBox, CrabRed, "makedirs")

\* line 12
EllipseRightClaw == ellipse("rightClaw", RightClawBox, CrabRed, "text")

\* line 13: draw.text([100, 105], "<crab>", fill=(255, 255, 255, 255)) with the
\* default font.  The bitmap font raises UnicodeEncodeError on text that is
\* not Latin-1, before it touches the canvas.
text ==
    /\ pc = "text"
    /\ draw
    /\ IF defaultFont = "bitmap" /\ ~Latin1Encodable(CrabText)
       THEN /\ Raise("UnicodeEncodeError")
            /\ UNCHANGED img
       ELSE /\ img' = [img EXCEPT
                         !.layers = Append(@, Layer("text", TextXY, White, CrabText))]
            /\ Goto("makedirs")
    /\ UNCHANGED <<draw, fs, diskFree, defaultFont, stdout, calls, run, fs0,
                   prevOK, lastOK>>

(***************************************************************************)
(* Filesystem: lines 16-19                                                 *)
(***************************************************************************)
\* faulty variant: os.makedirs('icons') without exist_ok
makedirsNotExistOk ==
    /\ pc = "makedirs"
    /\ calls' = Append(calls, Call("mkdir", IconsDir, ""))
    /\ IF fs[IconsDir].kind # "absent"
       THEN /\ Raise("FileExistsError")
            /\ UNCHANGED fs
       ELSE IF ~fs[Cwd].w
       THEN /\ Raise("PermissionError")
            /\ UNCHANGED fs
       ELSE /\ fs' = [fs EXCEPT ![IconsDir] = Dir(TRUE)]
            /\ Goto("save")
    /\ UNCHANGED <<img, draw, diskFree, defaultFont, stdout, run, fs0, prevOK,
                   lastOK>>

\* faulty variant: the directory step left out
makedirsSkipped ==
    /\ pc = "makedirs"
    /\ Goto("save")
    /\ UNCHANGED <<img, draw, fs, diskFree, defaultFont, stdout, calls, run,
                   fs0, prevOK, lastOK>>

\* line 16: os.makedirs('icons', exist_ok=True)
\* mkdir is tried first; its error is swallowed only if the path is a
\* directory already.
makedirs ==
    /\ pc = "makedirs"
    /\ calls' = Append(calls, Call("mkdir", IconsDir, ""))
    /\ IF fs[IconsDir].kind = "dir"
       THEN /\ Goto("save")
            /\ UNCHANGED fs
       ELSE IF fs[IconsDir].kind = "file"
       THEN /\ Raise("FileExistsError")
            /\ UNCHANGED fs
       ELSE IF ~fs[Cwd].w
       THEN /\ Raise("PermissionError")
            /\ UNCHANGED fs
       ELSE /\ fs' = [fs EXCEPT ![IconsDir] = Dir(TRUE)]
            /\ Goto("save")
    /\ UNCHANGED <<img, draw, diskFree, defaultFont, stdout, run, fs0, prevOK,
                   lastOK>>

\* line 19: img.save('icons/icon.png')
\* Image.save opens the path "w+b" (creating the file, or truncating the one
\* that is there), lets the PNG encoder write its chunks, and closes the file.
\* If the encoder's write fails it removes the file only if this call created
\* it, and re-raises.
save ==
    /\ pc = "save"
    /\ LET png == EncodePNG(img)
           parent == fs[IconsDir]
           target == fs[IconPath]
           created == target.kind = "absent"
           written == SubSeq(png, 1, Min(diskFree, Len(png)))
       IN  IF parent.kind # "dir"
           THEN /\ Raise("FileNotFoundError")
                /\ calls' = Append(calls, Call("open", IconPath, "w+b"))
                /\ UNCHANGED fs
           ELSE IF (created /\ ~parent.w) \/ (~created /\ ~target.w)
           THEN /\ Raise("PermissionError")
                /\ calls' = Append(calls, Call("open", IconPath, "w+b"))
                /\ UNCHANGED fs
           ELSE IF Len(written) < Len(png)
           THEN /\ Raise("OSError")
                /\ IF created
                   THEN /\ fs' = [fs EXCEPT ![IconPath] = Absent]
                        /\ calls' = calls \o <<Call("open", IconPath, "w+b"),
                                               Call("write", IconPath, ""),
                                               Call("close", IconPath, ""),
                                               Call("remove", IconPath, "")>>
                   ELSE /\ fs' = [fs EXCEPT ![IconPath] = File(target.w, written)]
                        /\ calls' = calls \o <<Call("open", IconPath, "w+b"),
                                               Call("write", IconPath, ""),
                                               Call("close", IconPath, "")>>
           ELSE /\ fs' = [fs EXCEPT ![IconPath] =
                            File(IF created THEN TRUE ELSE target.w, png)]
                /\ calls' = calls \o <<Call("open", IconPath, "w+b"),
                                       Call("write", IconPath, ""),
                                       Call("close", IconPath, "")>>
                /\ Goto("print")
    /\ UNCHANGED <<img, draw, diskFree, defaultFont, stdout, run, fs0, prevOK,
                   lastOK>>

\* faulty variant: the confirmation printed twice
printTwice ==
    /\ pc = "print"
    /\ stdout' = stdout \o <<Confirmation, Confirmation>>
    /\ pc' = "done"
    /\ exit' = <<0>>
    /\ lastOK' = fs[IconPath].data
    /\ UNCHANGED <<img, draw, fs, diskFree, defaultFont, stderr, err, calls,
                   run, fs0, prevOK>>

\* line 20: print("Created icons/icon.png"), then the interpreter exits 0
print ==
    /\ pc = "print"
    /\ stdout' = Append(stdout, Confirmation)
    /\ pc' = "done"
    /\ exit' = <<0>>
    /\ lastOK' = fs[IconPath].data
    /\ UNCHANGED <<img, draw, fs, diskFree, defaultFont, stderr, err, calls,
                   run, fs0, prevOK>>

(***************************************************************************)
(* The script is started again                                             *)
(***************************************************************************)
\* permissions a path can have when the next run starts
Chmod(e, w) == IF e.kind = "absent" THEN e ELSE [e EXCEPT !.w = w]

\* A new process on the filesystem the previous run left: fresh interpreter
\* state; between the runs the environment may have changed permissions and
\* free space.
StartRun ==
    /\ pc \in {"done", "failed"}
    /\ run < MaxRuns
    /\ run' = run + 1
    /\ \E cw, dw, fw \in BOOLEAN :
          fs' = [fs EXCEPT ![Cwd] = Chmod(@, cw),
                           ![IconsDir] = Chmod(@, dw),
                           ![IconPath] = Chmod(@, fw)]
    /\ diskFree' \in 0..Len(PNGChunkTypes)
    /\ fs0' = fs'
    /\ prevOK' = (pc = "done")
    /\ pc' = "new"
    /\ img' = NoImage
    /\ draw' = FALSE
    /\ stdout' = <<>>
    /\ stderr' = <<>>
    /\ exit' = <<>>
    /\ err' = NoErr
    /\ calls' = <<>>
    /\ UNCHANGED <<defaultFont, lastOK>>

Next ==
    \/ ImageNew
    \/ ImageDrawDraw
    \/ EllipseBody
    \/ EllipseLeftClaw
    \/ EllipseRightClaw
    \/ text
    \/ makedirs
    \/ save
    \/ print
    \/ StartRun

Spec == Init /\ [][Next]_vars

\* one run only: the script is not started again
OneRun ==
    \/ ImageNew
    \/ ImageDrawDraw
    \/ EllipseBody
    \/ EllipseLeftClaw
    \/ EllipseRightClaw
    \/ text
    \/ makedirs
    \/ save
    \/ print

SpecOneRun == Init /\ [][OneRun]_vars

(***************************************************************************)
(* Properties                                                              *)
(***************************************************************************)
Running == pc \notin {"done", "failed"}

BeforeMakedirs ==
    {"new", "Draw", "body", "leftClaw", "rightClaw", "text", "makedirs"}

\* the drawing calls of the script, in source order, after the initial fill
FourDraws(layers) ==
    /\ Len(layers) = 5
    /\ layers[1].op = "fill"
    /\ layers[2] = Layer("ellipse", <<50, 80, 206, 176>>, <<233, 69, 96, 255>>, <<>>)
    /\ layers[3] = Layer("ellipse", <<30, 60, 80, 110>>, <<233, 69, 96, 255>>, <<>>)
    /\ layers[4] = Layer("ellipse", <<176, 60, 226, 110>>, <<233, 69, 96, 255>>, <<>>)
    /\ layers[5].op = "text" /\ layers[5].xy = <<100, 105>>

\* position of the first call with this op in the run's call log, 0 if none
FirstCall(op) ==
    IF \E i \in 1..Len(calls) : calls[i].op = op
    THEN CHOOSE i \in 1..Len(calls) :
            /\ calls[i].op = op
            /\ \A j \in 1..(i - 1) : calls[j].op # op
    ELSE 0

\* C1: a run that found no icons/ and in which nothing failed ends with the
\* directory icons/ and the file icons/icon.png both present, and the
\* directory existed before the file write began (the directory call comes
\* before the open of the file, and the file is untouched until then).
C1_CreatesDirThenFile ==
    fs0[IconsDir].kind = "absent" =>
        /\ pc = "save" =>
              /\ fs[IconsDir].kind = "dir"
              /\ fs[IconPath] = fs0[IconPath]
              /\ FirstCall("open") = 0
        /\ pc = "done" =>
              /\ fs[IconsDir].kind = "dir"
              /\ fs[IconPath].kind = "file"
              /\ FirstCall("mkdir") = 1
              /\ FirstCall("open") > FirstCall("mkdir")

C1_Witness ==
    /\ pc = "done"
    /\ fs0[IconsDir].kind = "absent"
    /\ fs[IconsDir].kind = "dir"
    /\ fs[IconPath].kind = "file"

\* the environment of the current run lets the file be rewritten: the file
\* it found is writable and the disk has room for the whole PNG
Benign == fs0[IconPath].w /\ diskFree >= Len(PNGChunkTypes)

\* C2: a run that follows a successful run, and so finds icons/ and
\* icons/icon.png present, raises no error because of them (it can fail only
\* if the file was made read-only or the disk filled up in between), replaces
\* the whole file, and ends with the filesystem holding what the first run
\* left: the directory, and the file with the same canvas contents.
C2_SecondRunIdempotent ==
    prevOK =>
        /\ fs0[IconsDir].kind = "dir" /\ fs0[IconPath].kind = "file"
        /\ pc = "failed" =>
              /\ err.type \in {"PermissionError", "OSError"}
              /\ err.at = "save"
              /\ ~Benign
        /\ pc \in {"print", "done"} =>
              /\ \A p \in Paths : Content(fs, p) = Content(fs0, p)
              /\ fs[IconPath].data = EncodePNG(img)
              /\ fs[IconPath].data = lastOK
        /\ (pc = "save" /\ Benign) => fs[IconPath].w

C2_Witness ==
    /\ prevOK
    /\ pc = "done"
    /\ fs[IconPath].data = lastOK
    /\ IsCompletePNG(fs[IconPath].data)

\* C3 (as claimed): whenever icons/icon.png is present after some run has
\* succeeded, it holds the complete canvas contents of the last successful
\* run; a failed run never leaves a partial, truncated or empty file in its
\* place.
C3_FileReflectsLastSuccess ==
    (lastOK # <<>> /\ fs[IconPath].kind = "file" /\ ~Running) =>
        /\ fs[IconPath].data = lastOK
        /\ IsCompletePNG(fs[IconPath].data)

\* the run found a target it has no permission to write: it cannot create
\* icons/, or cannot create or open icons/icon.png
LacksPermission ==
    \/ fs0[IconsDir].kind = "absent" /\ ~fs0[Cwd].w
    \/ fs0[IconsDir].kind = "dir" /\ fs0[IconPath].kind = "absent"
                                 /\ ~fs0[IconsDir].w
    \/ fs0[IconPath].kind = "file" /\ ~fs0[IconPath].w

\* C4: a run without write permission to the target never reaches the
\* success state and never prints the confirmation; when it ends it has
\* failed with exit status 1 and a diagnostic on stderr; and it leaves
\* icons/icon.png exactly as it found it, so it leaves no zero-byte file
\* behind.
C4_PermissionDenied ==
    LacksPermission =>
        /\ pc \notin {"print", "done"}
        /\ stdout = <<>>
        /\ exit # <<>> => (pc = "failed" /\ exit = <<1>> /\ stderr # <<>>)
        /\ pc = "failed" => (exit = <<1>> /\ stderr # <<>> /\ err # NoErr)
        /\ fs[IconPath] = fs0[IconPath]
        /\ (fs[IconPath].kind = "file" /\ fs[IconPath].data = <<>>) =>
              (fs0[IconPath].kind = "file" /\ fs0[IconPath].data = <<>>)

C4_Witness ==
    /\ LacksPermission
    /\ pc = "failed"
    /\ err.type = "PermissionError"
    /\ exit = <<1>>

\* C5: the confirmation line is printed exactly once in a successful run,
\* only after the file write has completed, and never in a run that fails.
C5_ConfirmationOnce ==
    /\ pc = "done" => stdout = <<Confirmation>>
    /\ pc # "done" => stdout = <<>>
    /\ stdout # <<>> =>
          /\ err = NoErr
          /\ fs[IconPath].kind = "file"
          /\ fs[IconPath].data = EncodePNG(img)
          /\ calls[Len(calls)] = Call("close", IconPath, "")

C5_Witness ==
    /\ pc = "done"
    /\ stdout = <<Confirmation>>
    /\ IsCompletePNG(fs[IconPath].data)

\* C6: from its allocation on the canvas is 256 x 256 and RGBA, whatever
\* has been drawn, and the file a successful run wrote decodes to a
\* 256 x 256 RGBA image.
C6_CanvasShape ==
    /\ img # NoImage => (img.mode = "RGBA" /\ img.size = <<256, 256>>)
    /\ pc # "new" => img # NoImage
    /\ pc \in {"print", "done"} =>
          /\ IsCompletePNG(fs[IconPath].data)
          /\ DecodePNG(fs[IconPath].data).mode = "RGBA"
          /\ DecodePNG(fs[IconPath].data).size = <<256, 256>>

C6_Witness ==
    /\ pc = "done"
    /\ Len(img.layers) = 5
    /\ DecodePNG(fs[IconPath].data).size = <<256, 256>>

\* C7: at the moment of saving every pixel inside the body ellipse
\* [50,80,206,176], inside the claws [30,60,80,110] and [176,60,226,110],
\* and in the text region anchored at (100,105) has alpha 255.
C7_Opaque ==
    pc = "save" =>
        /\ \A x \in 50..206, y \in 80..176 :
              EllipseCovers(<<50, 80, 206, 176>>, x, y) =>
                  Alpha(GetPixel(img, x, y)) = 255
        /\ \A x \in 30..80, y \in 60..110 :
              EllipseCovers(<<30, 60, 80, 110>>, x, y) =>
                  Alpha(GetPixel(img, x, y)) = 255
        /\ \A x \in 176..226, y \in 60..110 :
              EllipseCovers(<<176, 60, 226, 110>>, x, y) =>
                  Alpha(GetPixel(img, x, y)) = 255
        /\ \A x \in 100..(100 + GlyphCols * Len(CrabText) - 1),
              y \in 105..(105 + GlyphRows - 1) :
                  Alpha(GetPixel(img, x, y)) = 255

C7_Witness ==
    /\ pc = "save"
    /\ Len(img.layers) = 5
    /\ GetPixel(img, 100, 105) # GetPixel(img, 128, 128)
    /\ Alpha(GetPixel(img, 0, 0)) = 0

\* C8 (as claimed): a run fails only at directory creation or at the file
\* write, and such a failure ends the run in the failed state.
C8_TwoFailurePoints ==
    /\ pc = "failed" => err.at \in {"makedirs", "save"}
    /\ err # NoErr => pc = "failed"

\* C9: a run opens no file for reading, every filesystem call it makes
\* names icons/ or icons/icon.png, and every other path is as the run found
\* it.
C9_Frame ==
    /\ \A p \in Paths \ {"icons", "icons/icon.png"} : fs[p] = fs0[p]
    /\ \A i \in 1..Len(calls) :
          /\ calls[i].path \in {"icons", "icons/icon.png"}
          /\ calls[i].op \in {"mkdir", "open", "write", "close", "remove"}
          /\ calls[i].op = "open" => calls[i].mode = "w+b"
    /\ fs[IconsDir] # fs0[IconsDir] => FirstCall("mkdir") > 0
    /\ fs[IconPath] # fs0[IconPath] => FirstCall("open") > 0

C9_Witness ==
    /\ pc = "done"
    /\ fs[IconPath] # fs0[IconPath]
    /\ fs[IconsDir] # fs0[IconsDir]
    /\ fs[Other] = fs0[Other]

\* C10: the four drawing calls come before any filesystem effect, the file
\* is written after the directory step, a run that stops before the
\* directory step leaves the filesystem as it found it, and the file of a
\* successful run holds all four drawing calls.
C10_DrawBeforeFilesystem ==
    /\ (pc \in BeforeMakedirs \/ (pc = "failed" /\ err.at \in BeforeMakedirs
                                                /\ err.at # "makedirs")) =>
          (fs = fs0 /\ calls = <<>>)
    /\ (calls # <<>> \/ fs # fs0 \/ pc = "makedirs") => FourDraws(img.layers)
    /\ calls # <<>> => calls[1].op = "mkdir"
    /\ pc \in {"print", "done"} =>
          /\ FourDraws(DecodePNG(fs[IconPath].data).layers)
          /\ DecodePNG(fs[IconPath].data) = img

C10_Witness ==
    /\ pc = "failed"
    /\ err.at = "text"
    /\ fs = fs0
    /\ Len(img.layers) = 4

====
